---- MODULE Spec2Model ----
(***************************************************************************)
(* GitFlow AI analytics backend: the ROI calculator                       *)
(* (backend/src/services/roiCalculator.ts, kept as src/unnamed/part_002)  *)
(* over the PostgreSQL tables of the schema (kept at the end of           *)
(* src/chrome-extension/src/background.js).                               *)
(*                                                                         *)
(* JavaScript numbers are modelled as exact rationals plus NaN and        *)
(* +/-Infinity: the rounding of IEEE doubles is abstracted away, division *)
(* by zero, NaN propagation, truthiness and string coercion are kept.     *)
(***************************************************************************)
EXTENDS Integers, Sequences, FiniteSets, TLC

----------------------------------------------------------------------------
(* JavaScript values, as far as the calculator sees them.                  *)
(* t: "null" | "undefined" | "string" | "number"; a string is the text of  *)
(* a decimal number (what node-postgres returns for bigint and numeric),   *)
(* held as the rational n/d it spells; k: "fin" | "nan" | "inf".           *)

Abs(i) == IF i < 0 THEN -i ELSE i

Sign(i) == IF i < 0 THEN -1 ELSE IF i > 0 THEN 1 ELSE 0

RECURSIVE Gcd(_, _)
Gcd(a, b) == IF b = 0 THEN a ELSE Gcd(b, a % b)

JsNull == [t |-> "null", k |-> "fin", n |-> 0, d |-> 1]

JsUndefined == [t |-> "undefined", k |-> "fin", n |-> 0, d |-> 1]

NaN == [t |-> "number", k |-> "nan", n |-> 0, d |-> 1]

Infinity(s) == [t |-> "number", k |-> "inf", n |-> s, d |-> 1]

\* the finite number n/d (d # 0), in lowest terms with a positive denominator
Num(n, d) ==
    LET g == Gcd(Abs(n), Abs(d))
        s == IF d < 0 THEN -1 ELSE 1
    IN  [t |-> "number", k |-> "fin", n |-> (s * n) \div g, d |-> (s * d) \div g]

JsInt(i) == Num(i, 1)

\* the string spelling the decimal number n/d
Str(n, d) == [Num(n, d) EXCEPT !.t = "string"]

IsFinite(x) == x.t = "number" /\ x.k = "fin"

\* ToBoolean: null, undefined, 0 and NaN are falsy; a non-empty string is
\* truthy whatever it spells ("0" included)
Truthy(v) ==
    CASE v.t = "null" -> FALSE
      [] v.t = "undefined" -> FALSE
      [] v.t = "string" -> TRUE
      [] OTHER -> v.k = "inf" \/ (v.k = "fin" /\ v.n # 0)

\* a || b
Or(a, b) == IF Truthy(a) THEN a ELSE b

\* ToNumber, applied by the arithmetic operators to their operands
ToNumber(v) ==
    CASE v.t = "null" -> JsInt(0)
      [] v.t = "undefined" -> NaN
      [] v.t = "string" -> [v EXCEPT !.t = "number"]
      [] OTHER -> v

\* parseFloat(String(v)): the number a numeric string spells; "null" and
\* "undefined" spell no number
parseFloat(v) ==
    CASE v.t = "string" -> [v EXCEPT !.t = "number"]
      [] v.t = "number" -> v
      [] OTHER -> NaN

\* truncation toward zero of a finite n/d
Trunc(n, d) == Sign(n) * (Abs(n) \div d)

\* parseInt(String(v)): the leading integer digits
parseInt(v) ==
    CASE v.t = "string" -> JsInt(Trunc(v.n, v.d))
      [] v.t = "number" /\ v.k = "fin" -> JsInt(Trunc(v.n, v.d))
      [] OTHER -> NaN

Mul(a, b) ==
    LET x == ToNumber(a)
        y == ToNumber(b)
    IN  CASE x.k = "nan" \/ y.k = "nan" -> NaN
          [] x.k = "inf" \/ y.k = "inf" ->
                IF Sign(x.n) * Sign(y.n) = 0 THEN NaN
                ELSE Infinity(Sign(x.n) * Sign(y.n))
          [] OTHER -> Num(x.n * y.n, x.d * y.d)

Div(a, b) ==
    LET x == ToNumber(a)
        y == ToNumber(b)
    IN  CASE x.k = "nan" \/ y.k = "nan" -> NaN
          [] x.k = "inf" /\ y.k = "inf" -> NaN
          [] x.k = "inf" -> Infinity(IF y.n < 0 THEN -x.n ELSE x.n)
          [] y.k = "inf" -> JsInt(0)
          [] y.n = 0 -> IF x.n = 0 THEN NaN ELSE Infinity(Sign(x.n))
          [] OTHER -> Num(x.n * y.d, x.d * y.n)

Add(a, b) ==
    LET x == ToNumber(a)
        y == ToNumber(b)
    IN  CASE x.k = "nan" \/ y.k = "nan" -> NaN
          [] x.k = "inf" /\ y.k = "inf" -> IF x.n = y.n THEN x ELSE NaN
          [] x.k = "inf" -> x
          [] y.k = "inf" -> y
          [] OTHER -> Num(x.n * y.d + y.n * x.d, x.d * y.d)

Sub(a, b) == Add(a, Mul(JsInt(-1), b))

\* a > b on numbers: false as soon as one side is NaN
Gt(a, b) ==
    LET x == ToNumber(a)
        y == ToNumber(b)
    IN  CASE x.k = "nan" \/ y.k = "nan" -> FALSE
          [] x.k = "inf" /\ y.k = "inf" -> x.n > y.n
          [] x.k = "inf" -> x.n > 0
          [] y.k = "inf" -> y.n < 0
          [] OTHER -> x.n * y.d > y.n * x.d

MathFloor(a) ==
    LET x == ToNumber(a)
    IN  IF x.k # "fin" THEN x ELSE JsInt(x.n \div x.d)

MathMax(a, b) ==
    LET x == ToNumber(a)
        y == ToNumber(b)
    IN  IF x.k = "nan" \/ y.k = "nan" THEN NaN
        ELSE IF Gt(y, x) THEN y ELSE x

----------------------------------------------------------------------------
(* The PostgreSQL tables the calculator reads.                             *)
(* A nullable column holds <<>> (NULL) or <<v>>.  age is the number of     *)
(* days between the row's timestamp and the moment of the call.            *)

RepositoryIds == {1, 2}

\* rows of merge_conflicts that the seed may insert
ConflictRows ==
    { [repository_id |-> 1, age |-> 5, resolution_time |-> <<0>>, resolved |-> TRUE],
      [repository_id |-> 1, age |-> 5, resolution_time |-> <<90>>, resolved |-> TRUE],
      [repository_id |-> 1, age |-> 5, resolution_time |-> <<>>, resolved |-> FALSE],
      [repository_id |-> 1, age |-> 40, resolution_time |-> <<30>>, resolved |-> TRUE],
      [repository_id |-> 2, age |-> 5, resolution_time |-> <<60>>, resolved |-> FALSE] }

\* rows of ml_predictions that the seed may insert
PredictionRows ==
    { [repository_id |-> 1, age |-> 5, prediction_type |-> "merge_conflict",
       correct_prediction |-> <<TRUE>>],
      [repository_id |-> 1, age |-> 5, prediction_type |-> "merge_conflict",
       correct_prediction |-> <<FALSE>>],
      [repository_id |-> 1, age |-> 5, prediction_type |-> "build_failure",
       correct_prediction |-> <<TRUE>>],
      [repository_id |-> 1, age |-> 40, prediction_type |-> "merge_conflict",
       correct_prediction |-> <<>>],
      [repository_id |-> 2, age |-> 5, prediction_type |-> "build_failure",
       correct_prediction |-> <<TRUE>>] }

\* how many equal rows one seed of ml_predictions inserts
PredictionBatches == {1, 20, 80}

\* daily samples of engineering_metrics that the seed may insert
SampleRows ==
    { [repository_id |-> 1, cycle_time |-> <<12>>, code_review_time |-> <<300>>,
       pr_merge_time |-> <<60>>],
      [repository_id |-> 1, cycle_time |-> <<0>>, code_review_time |-> <<240>>,
       pr_merge_time |-> <<0>>],
      [repository_id |-> 1, cycle_time |-> <<60>>, code_review_time |-> <<500>>,
       pr_merge_time |-> <<>>],
      [repository_id |-> 1, cycle_time |-> <<>>, code_review_time |-> <<>>,
       pr_merge_time |-> <<>>],
      [repository_id |-> 2, cycle_time |-> <<36>>, code_review_time |-> <<600>>,
       pr_merge_time |-> <<30>>] }

\* how many consecutive days of equal samples one seed inserts
SampleRuns == {1, 30}

\* the number of seeds the store receives before the calculator is used
MaxSeeds == 2

\* errors the pool's query may reject with
PoolErrors == {"ECONNREFUSED", "ETIMEDOUT"}

\* timeframeDays the callers pass (30 is the parameter's default)
TimeframeValues == {-30, 0, 30, 60}

\* rows a test double of the pool resolves with, whatever the query: of the
\* types node-postgres returns (bigint and numeric as text, or NULL), or
\* no row at all
CannedConflictRows ==
    { <<>>,
      <<[total_conflicts |-> Str(4, 1), avg_resolution_minutes |-> Str(45, 1),
         resolution_rate |-> Str(1, 2)]>>,
      <<[total_conflicts |-> Str(2, 1), avg_resolution_minutes |-> Str(0, 1),
         resolution_rate |-> Str(1, 1)]>> }

CannedPredictionRows ==
    { <<>>,
      <<[total_predictions |-> Str(100, 1), accuracy_rate |-> Str(4, 5),
         prevented_failures |-> Str(3, 1)]>>,
      <<[total_predictions |-> Str(3, 1), accuracy_rate |-> Str(1, 2),
         prevented_failures |-> Str(1, 1)]>>,
      <<[total_predictions |-> Str(0, 1), accuracy_rate |-> Str(1, 2),
         prevented_failures |-> JsNull]>> }

CannedEngineeringRows ==
    { <<>>,
      <<[avg_cycle_time |-> Str(25, 2)]>>,
      <<[avg_cycle_time |-> Str(24, 1)]>>,
      <<[avg_cycle_time |-> Str(0, 1)]>> }

\* the fetched samples a test double resolves with, as runs of equal rows
CannedSampleRows ==
    { <<>>,
      <<[n |-> 30, row |-> [repository_id |-> 1, cycle_time |-> <<10>>,
                            code_review_time |-> <<300>>, pr_merge_time |-> <<60>>]]>>,
      <<[n |-> 30, row |-> [repository_id |-> 1, cycle_time |-> <<48>>,
                            code_review_time |-> <<480>>, pr_merge_time |-> <<60>>]]>>,
      <<[n |-> 15, row |-> [repository_id |-> 1, cycle_time |-> <<48>>,
                            code_review_time |-> <<480>>, pr_merge_time |-> <<60>>]],
        [n |-> 15, row |-> [repository_id |-> 1, cycle_time |-> <<72>>,
                            code_review_time |-> <<520>>, pr_merge_time |-> <<>>]]>> }

VARIABLES
    pool,                 \* the injected pool: "pg" (PostgreSQL) or "double"
    merge_conflicts,      \* [ConflictRows -> Nat]: how many of each row
    ml_predictions,       \* [PredictionRows -> Nat]
    engineering_metrics,  \* runs of daily samples, most recent first
    seeds,                \* seeds received
    DEFAULT_HOURLY_COST,  \* the calculator's readonly field
    pc,                   \* "idle", or the query the invocation awaits
    args,                 \* the invocation's repositoryId and timeframeDays
    conflictData,         \* locals of calculateROI, <<>> while unset
    predictionData,
    engineeringData,
    metrics,              \* locals of identifyBottlenecks, <<>> while unset:
    avgMetrics,           \* the fetched rows and the averages over them
    issued,               \* the queries issued by the invocation, in order
    rejected,             \* the error the pool rejected with, <<>> if none
    outcome,              \* how the invocation settled
    invocations,          \* the frames of invocations that run concurrently
    monitoring,           \* the metrics array of the monitoring service
    recorded,             \* every entry recordRequest was called for, in order
    http,                 \* the requests the analytics router answered
    worker                \* the messages the extension's worker received

tables == <<merge_conflicts, ml_predictions, engineering_metrics, seeds>>

locals == <<conflictData, predictionData, engineeringData>>

samples == <<metrics, avgMetrics>>

\* the state of the components around the calculator
services == <<monitoring, recorded, http, worker>>

vars == <<pool, merge_conflicts, ml_predictions, engineering_metrics, seeds,
          DEFAULT_HOURLY_COST, pc, args, conflictData, predictionData,
          engineeringData, metrics, avgMetrics, issued, rejected, outcome,
          invocations, monitoring, recorded, http, worker>>

RECURSIVE SumOver(_, _)
SumOver(f, S) ==
    IF S = {} THEN 0
    ELSE LET x == CHOOSE x \in S : TRUE IN f[x] + SumOver(f, S \ {x})

\* WHERE repository_id = $1 AND <timestamp> >= $2, with $2 = now - days
InWindow(row, repositoryId, days) ==
    row.repository_id = repositoryId /\ row.age <= days

\* what node-postgres hands over for a bigint count or sum
PgBigint(i) == Str(i, 1)

\* what node-postgres hands over for AVG of an integer expression (a
\* numeric, as text), NULL when no row contributes
PgAvg(total, count) == IF count = 0 THEN JsNull ELSE Str(total, count)

\* the one row of the aggregate query of getConflictMetrics
ConflictQuery(repositoryId, days) ==
    LET M == {r \in ConflictRows : InWindow(r, repositoryId, days)}
        T == {r \in M : r.resolution_time # <<>>}
    IN  [total_conflicts |-> PgBigint(SumOver(merge_conflicts, M)),
         avg_resolution_minutes |->
            PgAvg(SumOver([r \in T |-> merge_conflicts[r] * r.resolution_time[1]], T),
                  SumOver(merge_conflicts, T)),
         resolution_rate |->
            PgAvg(SumOver([r \in M |-> IF r.resolved THEN merge_conflicts[r] ELSE 0], M),
                  SumOver(merge_conflicts, M))]

\* the one row of the aggregate query of getPredictionMetrics
PredictionQuery(repositoryId, days) ==
    LET M == {r \in PredictionRows : InWindow(r, repositoryId, days)}
        Correct(r) == r.correct_prediction = <<TRUE>>
        n == SumOver(ml_predictions, M)
    IN  [total_predictions |-> PgBigint(n),
         accuracy_rate |->
            PgAvg(SumOver([r \in M |-> IF Correct(r) THEN ml_predictions[r] ELSE 0], M), n),
         prevented_failures |->
            IF n = 0 THEN JsNull
            ELSE PgBigint(SumOver([r \in M |->
                    IF r.prediction_type = "build_failure" /\ Correct(r)
                    THEN ml_predictions[r] ELSE 0], M))]

\* the samples of engineering_metrics, one row per day: run i holds the
\* days Offset(i)+1 .. Offset(i)+n before the call
RECURSIVE Offset(_)
Offset(i) == IF i <= 1 THEN 0 ELSE Offset(i - 1) + engineering_metrics[i - 1].n

Min(a, b) == IF a < b THEN a ELSE b

Max(a, b) == IF a > b THEN a ELSE b

\* how many samples of run i are dated within the last `days` days
RunInWindow(i, days) == Max(0, Min(engineering_metrics[i].n, days - Offset(i)))

\* the one row of the aggregate query of getEngineeringMetrics; of its
\* three averages the calculator reads avg_cycle_time only
EngineeringQuery(repositoryId, days) ==
    LET I == {i \in DOMAIN engineering_metrics :
                /\ engineering_metrics[i].row.repository_id = repositoryId
                /\ engineering_metrics[i].row.cycle_time # <<>>}
    IN  [avg_cycle_time |->
            PgAvg(SumOver([i \in I |-> RunInWindow(i, days)
                                        * engineering_metrics[i].row.cycle_time[1]], I),
                  SumOver([i \in I |-> RunInWindow(i, days)], I))]

----------------------------------------------------------------------------
(* ROICalculator: the synchronous parts.                                   *)

\* rows[0]?.field
RowField(rows, field) == IF rows = <<>> THEN JsUndefined ELSE rows[1][field]

getConflictMetrics(rows) ==
    [totalConflicts |-> parseInt(Or(RowField(rows, "total_conflicts"), Str(0, 1))),
     avgResolutionMinutes |->
        parseFloat(Or(RowField(rows, "avg_resolution_minutes"), Str(45, 1))),
     resolutionRate |-> parseFloat(Or(RowField(rows, "resolution_rate"), Str(85, 100)))]

getPredictionMetrics(rows) ==
    [totalPredictions |-> parseInt(Or(RowField(rows, "total_predictions"), Str(0, 1))),
     accuracyRate |-> parseFloat(Or(RowField(rows, "accuracy_rate"), Str(78, 100))),
     preventedFailures |->
        parseInt(Or(RowField(rows, "prevented_failures"), Str(0, 1)))]

\* result.rows[0] || {}
getEngineeringMetrics(rows) ==
    IF rows = <<>> THEN [avg_cycle_time |-> JsUndefined] ELSE rows[1]

\* mutant: the improvement is not clamped at 0
calculateCICDSavingsUnclamped(engineeringData_) ==
    LET baselineCycleTime == JsInt(24)
        actualCycleTime == Or(engineeringData_.avg_cycle_time, baselineCycleTime)
    IN  Mul(Sub(baselineCycleTime, actualCycleTime), JsInt(4))

\* mutant: a missing average falls back to 0 instead of the baseline
calculateCICDSavingsZeroDefault(engineeringData_) ==
    LET baselineCycleTime == JsInt(24)
        actualCycleTime == Or(engineeringData_.avg_cycle_time, JsInt(0))
        improvement == MathMax(JsInt(0), Sub(baselineCycleTime, actualCycleTime))
    IN  Mul(improvement, JsInt(4))

\* mutant: the average is parsed before the fallback, so that 0 is falsy
calculateCICDSavingsParsedFirst(engineeringData_) ==
    LET baselineCycleTime == JsInt(24)
        actualCycleTime == Or(parseFloat(engineeringData_.avg_cycle_time),
                              baselineCycleTime)
        improvement == MathMax(JsInt(0), Sub(baselineCycleTime, actualCycleTime))
    IN  Mul(improvement, JsInt(4))

calculateCICDSavings(engineeringData_) ==
    LET baselineCycleTime == JsInt(24)
        actualCycleTime == Or(engineeringData_.avg_cycle_time, baselineCycleTime)
        improvement == MathMax(JsInt(0), Sub(baselineCycleTime, actualCycleTime))
    IN  Mul(improvement, JsInt(4))

\* the smallest integer >= a
MathCeil(a) ==
    LET x == ToNumber(a)
    IN  IF x.k # "fin" THEN x ELSE JsInt(-((-x.n) \div x.d))

\* mutant: Math.ceil for Math.floor
conflictsAvoidedCeil(predictionData_) ==
    MathCeil(Mul(predictionData_.totalPredictions, predictionData_.accuracyRate))

\* mutant: the count of the conflict summary for the count of predictions
conflictsAvoidedOfConflicts(predictionData_) ==
    MathFloor(Mul(conflictData[1].totalConflicts, predictionData_.accuracyRate))

conflictsAvoided(predictionData_) ==
    MathFloor(Mul(predictionData_.totalPredictions, predictionData_.accuracyRate))

avgResolutionTime(conflictData_) == Or(conflictData_.avgResolutionMinutes, JsInt(45))

timesSavedHours(avoided, resolutionTime) == Div(Mul(avoided, resolutionTime), JsInt(60))

cicdCostSavings(cicdTimeSaved, hourlyCost) ==
    Mul(cicdTimeSaved, Div(hourlyCost, JsInt(2)))

\* mutant: a running total, the total of a report already returned added
totalCostSavingsRunning(savings, cicdSavings) ==
    LET earlier == {i \in DOMAIN invocations :
                      /\ invocations[i].outcome.op = "calculateROI"
                      /\ invocations[i].outcome.status = "returned"}
    IN  IF earlier = {} THEN Add(savings, cicdSavings)
        ELSE Add(Add(savings, cicdSavings),
                 invocations[CHOOSE i \in earlier : TRUE].outcome.value[1].totalROI)

totalCostSavings(savings, cicdSavings) == Add(savings, cicdSavings)

\* mutant: the default window of 30 days for the window of the call
projectedAnnualSavingsOfDefault(total, timeframeDays) ==
    Mul(Div(total, JsInt(30)), JsInt(365))

projectedAnnualSavings(total, timeframeDays) ==
    Mul(Div(total, JsInt(timeframeDays)), JsInt(365))

\* lines 51-77 of calculateROI: the arithmetic after the three fetches
ROIMetrics(conflictData_, predictionData_, engineeringData_, timeframeDays) ==
    LET avoided == conflictsAvoided(predictionData_)
        resolutionTime == avgResolutionTime(conflictData_)
        saved == timesSavedHours(avoided, resolutionTime)
        hourlyCost == JsInt(DEFAULT_HOURLY_COST)
        savings == Mul(saved, hourlyCost)
        cicdTimeSaved == calculateCICDSavings(engineeringData_)
        total == totalCostSavings(savings, cicdCostSavings(cicdTimeSaved, hourlyCost))
    IN  [totalConflictsAvoided |-> avoided,
         avgConflictResolutionTime |-> resolutionTime,
         timesSaved |-> saved,
         costSavings |-> savings,
         developerHourlyCost |-> hourlyCost,
         preventedBuildFailures |-> Or(predictionData_.preventedFailures, JsInt(0)),
         cicdTimeSaved |-> cicdTimeSaved,
         totalROI |-> total,
         projectedAnnualSavings |-> projectedAnnualSavings(total, timeframeDays)]

\* catch (error) { logger.error(...); throw error; }
\* mutant: a new error is thrown in place of the caught one
RethrowWrapped(error) == "Error calculating ROI"

Rethrow(error) == error

\* SELECT * ... WHERE repository_id = $1 ORDER BY metric_date DESC LIMIT 30:
\* the runs of the repository cut after `limit` samples, most recent first
RECURSIVE RecentSamples(_, _, _)
RecentSamples(runs, repositoryId, limit) ==
    IF runs = <<>> \/ limit <= 0 THEN <<>>
    ELSE IF Head(runs).row.repository_id # repositoryId
         THEN RecentSamples(Tail(runs), repositoryId, limit)
         ELSE <<[Head(runs) EXCEPT !.n = Min(@, limit)]>>
              \o RecentSamples(Tail(runs), repositoryId, limit - Head(runs).n)

\* an int4 column as node-postgres hands it over
PgInt(column) == IF column = <<>> THEN JsNull ELSE JsInt(column[1])

RECURSIVE RowCount(_)
RowCount(runs) == IF runs = <<>> THEN 0 ELSE Head(runs).n + RowCount(Tail(runs))

\* rows.reduce((acc, row) => acc + (row[column] || 0)) over the fetched rows
RECURSIVE ReduceSum(_, _)
ReduceSum(runs, column) ==
    IF runs = <<>> THEN JsInt(0)
    ELSE Add(Mul(JsInt(Head(runs).n), Or(PgInt(Head(runs).row[column]), JsInt(0))),
             ReduceSum(Tail(runs), column))

\* mutant: the sums are divided by the LIMIT of the query, 30
calculateAverageMetricsOfLimit(rows) ==
    [code_review_time |-> Div(ReduceSum(rows, "code_review_time"), JsInt(30)),
     cycle_time |-> Div(ReduceSum(rows, "cycle_time"), JsInt(30)),
     pr_merge_time |-> Div(ReduceSum(rows, "pr_merge_time"), JsInt(30)),
     prsPerWeek |-> JsInt(20),
     conflictRate |-> Num(12, 100),
     avgConflictResolution |-> JsInt(45)]

\* mutant: a conflict rate of 0.30 in place of the fixed 0.12
calculateAverageMetricsHighRate(rows) ==
    [code_review_time |-> Div(ReduceSum(rows, "code_review_time"), JsInt(RowCount(rows))),
     cycle_time |-> Div(ReduceSum(rows, "cycle_time"), JsInt(RowCount(rows))),
     pr_merge_time |-> Div(ReduceSum(rows, "pr_merge_time"), JsInt(RowCount(rows))),
     prsPerWeek |-> JsInt(20),
     conflictRate |-> Num(30, 100),
     avgConflictResolution |-> JsInt(45)]

calculateAverageMetrics(rows) ==
    [code_review_time |-> Div(ReduceSum(rows, "code_review_time"), JsInt(RowCount(rows))),
     cycle_time |-> Div(ReduceSum(rows, "cycle_time"), JsInt(RowCount(rows))),
     pr_merge_time |-> Div(ReduceSum(rows, "pr_merge_time"), JsInt(RowCount(rows))),
     prsPerWeek |-> JsInt(20),
     conflictRate |-> Num(12, 100),
     avgConflictResolution |-> JsInt(45)]

\* mutant: a mean of exactly 480 minutes counts as high
longPrReviewInclusive(avg) ==
    IF Gt(avg.code_review_time, JsInt(240))
    THEN <<[type |-> "long_pr_review",
            impact |-> IF ~Gt(JsInt(480), avg.code_review_time)
                       THEN "high" ELSE "medium",
            estimatedCost |->
                Mul(Mul(Sub(Div(avg.code_review_time, JsInt(60)), JsInt(2)),
                        JsInt(DEFAULT_HOURLY_COST)),
                    avg.prsPerWeek)]>>
    ELSE <<>>

\* mutant: the whole review time is costed, not the time above 2 hours
longPrReviewNoBaseline(avg) ==
    IF Gt(avg.code_review_time, JsInt(240))
    THEN <<[type |-> "long_pr_review",
            impact |-> IF Gt(avg.code_review_time, JsInt(480))
                       THEN "high" ELSE "medium",
            estimatedCost |->
                Mul(Mul(Div(avg.code_review_time, JsInt(60)),
                        JsInt(DEFAULT_HOURLY_COST)),
                    avg.prsPerWeek)]>>
    ELSE <<>>

longPrReview(avg) ==
    IF Gt(avg.code_review_time, JsInt(240))
    THEN <<[type |-> "long_pr_review",
            impact |-> IF Gt(avg.code_review_time, JsInt(480))
                       THEN "high" ELSE "medium",
            estimatedCost |->
                Mul(Mul(Sub(Div(avg.code_review_time, JsInt(60)), JsInt(2)),
                        JsInt(DEFAULT_HOURLY_COST)),
                    avg.prsPerWeek)]>>
    ELSE <<>>

\* mutant: a conflict rate of exactly 0.15 is reported
mergeConflictsInclusive(avg) ==
    IF ~Gt(Num(15, 100), avg.conflictRate)
    THEN <<[type |-> "merge_conflicts",
            impact |-> IF Gt(avg.conflictRate, Num(25, 100))
                       THEN "high" ELSE "medium",
            estimatedCost |->
                Mul(Mul(Mul(avg.conflictRate, avg.prsPerWeek),
                        Div(avg.avgConflictResolution, JsInt(60))),
                    JsInt(DEFAULT_HOURLY_COST))]>>
    ELSE <<>>

mergeConflicts(avg) ==
    IF Gt(avg.conflictRate, Num(15, 100))
    THEN <<[type |-> "merge_conflicts",
            impact |-> IF Gt(avg.conflictRate, Num(25, 100))
                       THEN "high" ELSE "medium",
            estimatedCost |->
                Mul(Mul(Mul(avg.conflictRate, avg.prsPerWeek),
                        Div(avg.avgConflictResolution, JsInt(60))),
                    JsInt(DEFAULT_HOURLY_COST))]>>
    ELSE <<>>

\* mutant: a mean cycle time of exactly 48 hours is reported
slowCiInclusive(avg) ==
    IF ~Gt(JsInt(48), avg.cycle_time)
    THEN <<[type |-> "slow_ci",
            impact |-> "high",
            estimatedCost |->
                Mul(Mul(Div(Sub(avg.cycle_time, JsInt(24)), JsInt(24)),
                        JsInt(DEFAULT_HOURLY_COST)),
                    avg.prsPerWeek)]>>
    ELSE <<>>

\* mutant: the subtraction of the 24-hour baseline is reversed
slowCiReversed(avg) ==
    IF Gt(avg.cycle_time, JsInt(48))
    THEN <<[type |-> "slow_ci",
            impact |-> "high",
            estimatedCost |->
                Mul(Mul(Div(Sub(JsInt(24), avg.cycle_time), JsInt(24)),
                        JsInt(DEFAULT_HOURLY_COST)),
                    avg.prsPerWeek)]>>
    ELSE <<>>

slowCi(avg) ==
    IF Gt(avg.cycle_time, JsInt(48))
    THEN <<[type |-> "slow_ci",
            impact |-> "high",
            estimatedCost |->
                Mul(Mul(Div(Sub(avg.cycle_time, JsInt(24)), JsInt(24)),
                        JsInt(DEFAULT_HOURLY_COST)),
                    avg.prsPerWeek)]>>
    ELSE <<>>

\* mutant: the averages are computed over an empty window too
AverageMetricsUnguarded(rows) == <<calculateAverageMetrics(rows)>>

\* lines 103-107: no average is computed over an empty window
AverageMetrics(rows) ==
    IF RowCount(rows) = 0 THEN <<>> ELSE <<calculateAverageMetrics(rows)>>

\* mutant: the rules are chained with else-if, the first that fires wins
FindingsElseIf(avg) ==
    IF longPrReview(avg) # <<>> THEN longPrReview(avg)
    ELSE IF mergeConflicts(avg) # <<>> THEN mergeConflicts(avg)
    ELSE slowCi(avg)

\* mutant: the slow_ci rule is applied before the merge_conflicts rule
FindingsReordered(avg) == longPrReview(avg) \o slowCi(avg) \o mergeConflicts(avg)

\* lines 109-145: the three rules, applied in this order to the averages
Findings(avg) == longPrReview(avg) \o mergeConflicts(avg) \o slowCi(avg)

\* lines 103-145 of identifyBottlenecks: what it returns for the fetched
\* rows (description and recommendation, fixed texts, are left out)
Bottlenecks(rows) ==
    IF AverageMetrics(rows) = <<>> THEN <<>>
    ELSE Findings(AverageMetrics(rows)[1])

----------------------------------------------------------------------------
(* The state machine: the store is seeded, then the calculator is called;  *)
(* an invocation suspends at each await of pool.query and resumes when the *)
(* query resolves with its rows or rejects with an error.                  *)

NoOutcome == [op |-> "none", status |-> "none", error |-> <<>>, value |-> <<>>]

\* how many invocations the callers keep in flight at once
MaxInvocations == 2

Invocations == 1..MaxInvocations

\* the frame of an invocation: its position, its arguments, the locals of
\* calculateROI (lines 43-49) and how it settled
IdleFrame ==
    [pc |-> "idle", args |-> [repositoryId |-> 0, timeframeDays |-> 0],
     conflictData |-> <<>>, predictionData |-> <<>>, engineeringData |-> <<>>,
     outcome |-> NoOutcome]

Init ==
    /\ pool \in {"pg", "double"}
    /\ merge_conflicts = [r \in ConflictRows |-> 0]
    /\ ml_predictions = [r \in PredictionRows |-> 0]
    /\ engineering_metrics = <<>>
    /\ seeds = 0
    /\ DEFAULT_HOURLY_COST = 75
    /\ pc = "idle"
    /\ args = [repositoryId |-> 0, timeframeDays |-> 0]
    /\ conflictData = <<>>
    /\ predictionData = <<>>
    /\ engineeringData = <<>>
    /\ metrics = <<>>
    /\ avgMetrics = <<>>
    /\ issued = <<>>
    /\ rejected = <<>>
    /\ outcome = NoOutcome
    /\ invocations = [i \in Invocations |-> IdleFrame]
    /\ monitoring = <<>>
    /\ recorded = <<>>
    /\ http = <<>>
    /\ worker = <<>>

calculator == <<pool, DEFAULT_HOURLY_COST, pc, args, conflictData, predictionData,
                engineeringData, metrics, avgMetrics, issued, rejected, outcome,
                invocations, services>>

Seeding == pool = "pg" /\ seeds < MaxSeeds /\ pc = "idle" /\ outcome = NoOutcome

SeedConflict ==
    /\ Seeding
    /\ \E r \in ConflictRows :
          merge_conflicts' = [merge_conflicts EXCEPT ![r] = @ + 1]
    /\ seeds' = seeds + 1
    /\ UNCHANGED <<ml_predictions, engineering_metrics, calculator>>

SeedPredictions ==
    /\ Seeding
    /\ \E r \in PredictionRows, n \in PredictionBatches :
          ml_predictions' = [ml_predictions EXCEPT ![r] = @ + n]
    /\ seeds' = seeds + 1
    /\ UNCHANGED <<merge_conflicts, engineering_metrics, calculator>>

SeedSamples ==
    /\ Seeding
    /\ \E r \in SampleRows, n \in SampleRuns :
          engineering_metrics' = <<[n |-> n, row |-> r]>> \o engineering_metrics
    /\ seeds' = seeds + 1
    /\ UNCHANGED <<merge_conflicts, ml_predictions, calculator>>

\* what pool.query resolves with: result.rows
ConflictResults ==
    IF pool = "pg" THEN {<<ConflictQuery(args.repositoryId, args.timeframeDays)>>}
    ELSE CannedConflictRows

PredictionResults ==
    IF pool = "pg" THEN {<<PredictionQuery(args.repositoryId, args.timeframeDays)>>}
    ELSE CannedPredictionRows

EngineeringResults ==
    IF pool = "pg" THEN {<<EngineeringQuery(args.repositoryId, args.timeframeDays)>>}
    ELSE CannedEngineeringRows

SampleResults ==
    IF pool = "pg" THEN {RecentSamples(engineering_metrics, args.repositoryId, 30)}
    ELSE CannedSampleRows

\* mutant: the three queries are issued together (Promise.all)
calculateROIAllAtOnce ==
    /\ pc = "idle"
    /\ \E repositoryId \in RepositoryIds, timeframeDays \in TimeframeValues :
          args' = [repositoryId |-> repositoryId, timeframeDays |-> timeframeDays]
    /\ pc' = "getConflictMetrics"
    /\ issued' = <<"merge_conflicts", "ml_predictions", "engineering_metrics">>
    /\ conflictData' = <<>>
    /\ predictionData' = <<>>
    /\ engineeringData' = <<>>
    /\ metrics' = <<>>
    /\ avgMetrics' = <<>>
    /\ rejected' = <<>>
    /\ outcome' = [op |-> "calculateROI", status |-> "pending", error |-> <<>>,
                   value |-> <<>>]
    /\ UNCHANGED <<pool, tables, invocations, services, DEFAULT_HOURLY_COST>>

\* calculateROI up to its first await (lines 35-43)
calculateROI ==
    /\ pc = "idle"
    /\ \E repositoryId \in RepositoryIds, timeframeDays \in TimeframeValues :
          args' = [repositoryId |-> repositoryId, timeframeDays |-> timeframeDays]
    /\ pc' = "getConflictMetrics"
    /\ issued' = <<"merge_conflicts">>
    /\ conflictData' = <<>>
    /\ predictionData' = <<>>
    /\ engineeringData' = <<>>
    /\ metrics' = <<>>
    /\ avgMetrics' = <<>>
    /\ rejected' = <<>>
    /\ outcome' = [op |-> "calculateROI", status |-> "pending", error |-> <<>>,
                   value |-> <<>>]
    /\ UNCHANGED <<pool, tables, invocations, services, DEFAULT_HOURLY_COST>>

\* mutant: after a rejection the pool is replaced by a fresh one
QueryRejectsReconnecting ==
    /\ pc # "idle"
    /\ \E e \in PoolErrors :
          /\ rejected' = <<e>>
          /\ outcome' = [outcome EXCEPT !.status = "threw", !.error = <<Rethrow(e)>>]
    /\ pc' = "idle"
    /\ pool' = IF pool = "pg" THEN "double" ELSE "pg"
    /\ UNCHANGED <<tables, invocations, services, DEFAULT_HOURLY_COST, args, locals, samples,
                   issued>>

\* mutant: a rejected query is issued once more before the operation fails
QueryRejectsRetrying ==
    /\ pc # "idle"
    /\ \E e \in PoolErrors :
          /\ rejected' = <<e>>
          /\ IF rejected = <<>>
             THEN /\ issued' = Append(issued, issued[Len(issued)])
                  /\ UNCHANGED <<pc, outcome>>
             ELSE /\ outcome' = [outcome EXCEPT !.status = "threw",
                                                !.error = <<Rethrow(e)>>]
                  /\ pc' = "idle"
                  /\ UNCHANGED issued
    /\ UNCHANGED <<pool, tables, invocations, services, DEFAULT_HOURLY_COST, args, locals,
                   samples>>

\* the awaited query rejects: the catch block of the running operation
QueryRejects ==
    /\ pc # "idle"
    /\ \E e \in PoolErrors :
          /\ rejected' = <<e>>
          /\ outcome' = [outcome EXCEPT !.status = "threw", !.error = <<Rethrow(e)>>]
    /\ pc' = "idle"
    /\ UNCHANGED <<pool, tables, invocations, services, DEFAULT_HOURLY_COST, args, locals,
                   samples, issued>>

\* lines 43-46: the conflict query resolves, the prediction query is issued
ConflictMetricsFetched ==
    /\ pc = "getConflictMetrics"
    /\ \E rows \in ConflictResults :
          conflictData' = <<getConflictMetrics(rows)>>
    /\ pc' = "getPredictionMetrics"
    /\ issued' = Append(issued, "ml_predictions")
    /\ UNCHANGED <<pool, tables, invocations, services, DEFAULT_HOURLY_COST, args,
                   predictionData, engineeringData, samples, rejected, outcome>>

\* lines 46-49: the prediction query resolves, the engineering query is issued
PredictionMetricsFetched ==
    /\ pc = "getPredictionMetrics"
    /\ \E rows \in PredictionResults :
          predictionData' = <<getPredictionMetrics(rows)>>
    /\ pc' = "getEngineeringMetrics"
    /\ issued' = Append(issued, "engineering_metrics")
    /\ UNCHANGED <<pool, tables, invocations, services, DEFAULT_HOURLY_COST, args,
                   conflictData, engineeringData, samples, rejected, outcome>>

\* lines 49-81: the engineering query resolves, the metrics are returned
EngineeringMetricsFetched ==
    /\ pc = "getEngineeringMetrics"
    /\ \E rows \in EngineeringResults :
          /\ engineeringData' = <<getEngineeringMetrics(rows)>>
          /\ outcome' = [outcome EXCEPT
                !.status = "returned",
                !.value = <<ROIMetrics(conflictData[1], predictionData[1],
                                       getEngineeringMetrics(rows), args.timeframeDays)>>]
    /\ pc' = "idle"
    /\ UNCHANGED <<pool, tables, invocations, services, DEFAULT_HOURLY_COST, args,
                   conflictData, predictionData, samples, issued, rejected>>

\* identifyBottlenecks up to its await (lines 91-101)
identifyBottlenecks ==
    /\ pc = "idle"
    /\ \E repositoryId \in RepositoryIds :
          args' = [repositoryId |-> repositoryId, timeframeDays |-> 0]
    /\ pc' = "identifyBottlenecks"
    /\ issued' = <<"engineering_metrics">>
    /\ conflictData' = <<>>
    /\ predictionData' = <<>>
    /\ engineeringData' = <<>>
    /\ metrics' = <<>>
    /\ avgMetrics' = <<>>
    /\ rejected' = <<>>
    /\ outcome' = [op |-> "identifyBottlenecks", status |-> "pending", error |-> <<>>,
                   value |-> <<>>]
    /\ UNCHANGED <<pool, tables, invocations, services, DEFAULT_HOURLY_COST>>

\* lines 101-145: the sample query resolves, the findings are returned
SamplesFetched ==
    /\ pc = "identifyBottlenecks"
    /\ \E rows \in SampleResults :
          /\ metrics' = <<rows>>
          /\ avgMetrics' = AverageMetrics(rows)
          /\ outcome' = [outcome EXCEPT !.status = "returned",
                                        !.value = <<Bottlenecks(rows)>>]
    /\ pc' = "idle"
    /\ UNCHANGED <<pool, tables, invocations, services, DEFAULT_HOURLY_COST, args, locals,
                   issued, rejected>>

Next ==
    \/ SeedConflict
    \/ SeedPredictions
    \/ SeedSamples
    \/ calculateROI
    \/ ConflictMetricsFetched
    \/ PredictionMetricsFetched
    \/ EngineeringMetricsFetched
    \/ identifyBottlenecks
    \/ SamplesFetched
    \/ QueryRejects

Spec == Init /\ [][Next]_vars

----------------------------------------------------------------------------
(* The rules of identifyBottlenecks (lines 109-145) on their own: they are *)
(* a function of the averages object, which carries conflictRate,          *)
(* prsPerWeek and avgConflictResolution next to the window's means.        *)
(* Here the averages are supplied from a range of values and the rules are *)
(* applied to them.                                                        *)

SuppliedAverages ==
    [code_review_time : {JsInt(240), JsInt(300), JsInt(480), JsInt(500)},
     cycle_time : {JsInt(10), JsInt(48), JsInt(60)},
     pr_merge_time : {JsInt(60)},
     prsPerWeek : {JsInt(10), JsInt(20)},
     conflictRate : {Num(12, 100), Num(15, 100), Num(20, 100), Num(25, 100),
                     Num(30, 100)},
     avgConflictResolution : {JsInt(30), JsInt(45)}]

InitRules ==
    /\ pool = "double"
    /\ merge_conflicts = [r \in ConflictRows |-> 0]
    /\ ml_predictions = [r \in PredictionRows |-> 0]
    /\ engineering_metrics = <<>>
    /\ seeds = 0
    /\ DEFAULT_HOURLY_COST = 75
    /\ pc = "rules"
    /\ args = [repositoryId |-> 1, timeframeDays |-> 0]
    /\ conflictData = <<>>
    /\ predictionData = <<>>
    /\ engineeringData = <<>>
    /\ metrics = <<>>
    /\ avgMetrics \in {<<avg>> : avg \in SuppliedAverages}
    /\ issued = <<"engineering_metrics">>
    /\ rejected = <<>>
    /\ outcome = [op |-> "identifyBottlenecks", status |-> "pending", error |-> <<>>,
                  value |-> <<>>]
    /\ invocations = [i \in Invocations |-> IdleFrame]
    /\ monitoring = <<>>
    /\ recorded = <<>>
    /\ http = <<>>
    /\ worker = <<>>

\* lines 109-145: the rules are applied and the findings returned
ApplyRules ==
    /\ pc = "rules"
    /\ outcome' = [outcome EXCEPT !.status = "returned",
                                  !.value = <<Findings(avgMetrics[1])>>]
    /\ pc' = "idle"
    /\ UNCHANGED <<pool, tables, invocations, services, DEFAULT_HOURLY_COST, args, locals,
                   samples, issued, rejected>>

NextRules == ApplyRules

SpecRules == InitRules /\ [][NextRules]_vars

----------------------------------------------------------------------------
(* Concurrent invocations on one calculator and one store: each has its    *)
(* own frame and they interleave at the awaits of pool.query.              *)

\* timeframeDays the concurrent callers pass
ConcurrentTimeframes == {30, 60}

\* what the store holds while the invocations run: nothing, or the rows
\* below
StoredConflicts == [r \in ConflictRows |-> 1]

StoredPredictions == [r \in PredictionRows |-> 20]

StoredSamples ==
    <<[n |-> 1, row |-> [repository_id |-> 1, cycle_time |-> <<60>>,
                         code_review_time |-> <<500>>, pr_merge_time |-> <<>>]],
      [n |-> 30, row |-> [repository_id |-> 2, cycle_time |-> <<36>>,
                          code_review_time |-> <<600>>, pr_merge_time |-> <<30>>]],
      [n |-> 30, row |-> [repository_id |-> 1, cycle_time |-> <<12>>,
                          code_review_time |-> <<300>>, pr_merge_time |-> <<60>>]]>>

InitConcurrent ==
    /\ pool = "pg"
    /\ \E stored \in BOOLEAN :
          /\ merge_conflicts = IF stored THEN StoredConflicts
                               ELSE [r \in ConflictRows |-> 0]
          /\ ml_predictions = IF stored THEN StoredPredictions
                              ELSE [r \in PredictionRows |-> 0]
          /\ engineering_metrics = IF stored THEN StoredSamples ELSE <<>>
    /\ seeds = 0
    /\ DEFAULT_HOURLY_COST = 75
    /\ pc = "idle"
    /\ args = [repositoryId |-> 0, timeframeDays |-> 0]
    /\ conflictData = <<>>
    /\ predictionData = <<>>
    /\ engineeringData = <<>>
    /\ metrics = <<>>
    /\ avgMetrics = <<>>
    /\ issued = <<>>
    /\ rejected = <<>>
    /\ outcome = NoOutcome
    /\ invocations = [i \in Invocations |-> IdleFrame]
    /\ monitoring = <<>>
    /\ recorded = <<>>
    /\ http = <<>>
    /\ worker = <<>>

\* what the concurrent invocations leave alone
shared == <<pool, tables, DEFAULT_HOURLY_COST, pc, args, locals, samples, issued,
            rejected, outcome, services>>

\* mutant: the summaries are kept in fields of the calculator, which every
\* invocation sees
ScopeOfInstance(i) == Invocations

\* lines 43-49: conflictData, predictionData and engineeringData are consts
\* of the invocation that fetched them: no other invocation sees them
Scope(i) == {i}

\* the frames after invocation i assigns value to a local
Assign(i, local, value) ==
    [j \in Invocations |->
        IF j \in Scope(i) THEN [invocations[j] EXCEPT ![local] = <<value>>]
        ELSE invocations[j]]

\* calculateROI up to its first await (lines 35-43)
InvokeCalculateROI(i) ==
    /\ invocations[i].pc = "idle"
    /\ \E repositoryId \in RepositoryIds, timeframeDays \in ConcurrentTimeframes :
          invocations' = [invocations EXCEPT ![i] =
              [IdleFrame EXCEPT
                  !.pc = "getConflictMetrics",
                  !.args = [repositoryId |-> repositoryId,
                            timeframeDays |-> timeframeDays],
                  !.outcome = [op |-> "calculateROI", status |-> "pending",
                               error |-> <<>>, value |-> <<>>]]]
    /\ UNCHANGED shared

\* lines 43-46, for invocation i
ConflictMetricsResolved(i) ==
    /\ invocations[i].pc = "getConflictMetrics"
    /\ LET a == invocations[i].args
           rows == <<ConflictQuery(a.repositoryId, a.timeframeDays)>>
       IN  invocations' = [Assign(i, "conflictData", getConflictMetrics(rows))
                              EXCEPT ![i].pc = "getPredictionMetrics"]
    /\ UNCHANGED shared

\* lines 46-49, for invocation i
PredictionMetricsResolved(i) ==
    /\ invocations[i].pc = "getPredictionMetrics"
    /\ LET a == invocations[i].args
           rows == <<PredictionQuery(a.repositoryId, a.timeframeDays)>>
       IN  invocations' = [Assign(i, "predictionData", getPredictionMetrics(rows))
                              EXCEPT ![i].pc = "getEngineeringMetrics"]
    /\ UNCHANGED shared

\* lines 49-81, for invocation i
EngineeringMetricsResolved(i) ==
    /\ invocations[i].pc = "getEngineeringMetrics"
    /\ LET a == invocations[i].args
           rows == <<EngineeringQuery(a.repositoryId, a.timeframeDays)>>
       IN  invocations' = [Assign(i, "engineeringData", getEngineeringMetrics(rows))
                              EXCEPT
              ![i].pc = "idle",
              ![i].outcome.status = "returned",
              ![i].outcome.value =
                  <<ROIMetrics(invocations[i].conflictData[1],
                               invocations[i].predictionData[1],
                               getEngineeringMetrics(rows), a.timeframeDays)>>]
    /\ UNCHANGED shared

\* identifyBottlenecks up to its await (lines 91-101)
InvokeIdentifyBottlenecks(i) ==
    /\ invocations[i].pc = "idle"
    /\ \E repositoryId \in RepositoryIds :
          invocations' = [invocations EXCEPT ![i] =
              [IdleFrame EXCEPT
                  !.pc = "identifyBottlenecks",
                  !.args = [repositoryId |-> repositoryId, timeframeDays |-> 0],
                  !.outcome = [op |-> "identifyBottlenecks", status |-> "pending",
                               error |-> <<>>, value |-> <<>>]]]
    /\ UNCHANGED shared

\* lines 101-145, for invocation i
SamplesResolved(i) ==
    /\ invocations[i].pc = "identifyBottlenecks"
    /\ LET rows == RecentSamples(engineering_metrics,
                                 invocations[i].args.repositoryId, 30)
       IN  invocations' = [invocations EXCEPT
              ![i].pc = "idle",
              ![i].outcome.status = "returned",
              ![i].outcome.value = <<Bottlenecks(rows)>>]
    /\ UNCHANGED shared

\* the query invocation i awaits rejects: its catch block rethrows
QueryRejected(i) ==
    /\ invocations[i].pc # "idle"
    /\ \E e \in PoolErrors :
          invocations' = [invocations EXCEPT
              ![i].pc = "idle",
              ![i].outcome.status = "threw",
              ![i].outcome.error = <<Rethrow(e)>>]
    /\ UNCHANGED shared

NextConcurrent ==
    \/ \E i \in Invocations : InvokeCalculateROI(i)
    \/ \E i \in Invocations : ConflictMetricsResolved(i)
    \/ \E i \in Invocations : PredictionMetricsResolved(i)
    \/ \E i \in Invocations : EngineeringMetricsResolved(i)
    \/ \E i \in Invocations : InvokeIdentifyBottlenecks(i)
    \/ \E i \in Invocations : SamplesResolved(i)
    \/ \E i \in Invocations : QueryRejected(i)

SpecConcurrent == InitConcurrent /\ [][NextConcurrent]_vars

----------------------------------------------------------------------------
(* The monitoring service (utils/monitoring.ts): recordRequest appends an  *)
(* entry to the metrics array and cuts the array to its capacity.          *)

MAX_METRICS == 10000

\* how many calls of recordRequest a run follows
MaxRecords == 4

\* how many entries were recorded before the run: none, or nearly as many
\* as the array can hold
EarlierCounts == {0, MAX_METRICS - 2}

StatusCodes == {200, 500}

ResponseTimes == {50, 1500}

\* the entries recorded before the run, timestamps being the order of calls
Earlier(n) == [i \in 1..n |-> [timestamp |-> i, statusCode |-> 200, responseTime |-> 50]]

InitMonitoring ==
    /\ pool = "pg"
    /\ merge_conflicts = [r \in ConflictRows |-> 0]
    /\ ml_predictions = [r \in PredictionRows |-> 0]
    /\ engineering_metrics = <<>>
    /\ seeds = 0
    /\ DEFAULT_HOURLY_COST = 75
    /\ pc = "idle"
    /\ args = [repositoryId |-> 0, timeframeDays |-> 0]
    /\ conflictData = <<>>
    /\ predictionData = <<>>
    /\ engineeringData = <<>>
    /\ metrics = <<>>
    /\ avgMetrics = <<>>
    /\ issued = <<>>
    /\ rejected = <<>>
    /\ outcome = NoOutcome
    /\ invocations = [i \in Invocations |-> IdleFrame]
    /\ \E n \in EarlierCounts :
          /\ monitoring = Earlier(n)
          /\ recorded = Earlier(n)
    /\ http = <<>>
    /\ worker = <<>>

\* Array.prototype.slice(begin) up to the end of the array; a negative
\* begin counts from the end
slice(array, begin) ==
    LET from == IF begin < 0 THEN Max(Len(array) + begin, 0)
                ELSE Min(begin, Len(array))
    IN  SubSeq(array, from + 1, Len(array))

\* mutant: the array is cut at its end, slice(0, MAX_METRICS)
keepOldest(array) ==
    IF Len(array) > MAX_METRICS THEN SubSeq(array, 1, MAX_METRICS) ELSE array

\* lines 30-32: keep only recent metrics
keepRecent(array) ==
    IF Len(array) > MAX_METRICS THEN slice(array, -MAX_METRICS) ELSE array

\* lines 17-32 (the two log lines that follow change no state)
recordRequest ==
    /\ \E n \in EarlierCounts : Len(recorded) \in n..(n + MaxRecords - 1)
    /\ \E statusCode \in StatusCodes, responseTime \in ResponseTimes :
          LET metric == [timestamp |-> Len(recorded) + 1, statusCode |-> statusCode,
                         responseTime |-> responseTime]
          IN  /\ monitoring' = keepRecent(Append(monitoring, metric))
              /\ recorded' = Append(recorded, metric)
    /\ UNCHANGED <<pool, tables, invocations, DEFAULT_HOURLY_COST, pc, args, locals,
                   samples, issued, rejected, outcome, http, worker>>

NextMonitoring == recordRequest

SpecMonitoring == InitMonitoring /\ [][NextMonitoring]_vars

----------------------------------------------------------------------------
(* The analytics router (routes/analytics.ts): each handler answers with   *)
(* res.json of a literal.                                                  *)

\* how many requests a run follows
MaxRequests == 2

\* the empty object literal {}
EmptyObject == <<>>

\* the body of POST /calculate-roi: timeframeDays may be absent
RoiBodies == [repositoryId : RepositoryIds, timeframeDays : {<<>>, <<30>>, <<60>>}]

InitRoutes ==
    /\ pool = "pg"
    /\ \E stored \in BOOLEAN :
          /\ merge_conflicts = IF stored THEN StoredConflicts
                               ELSE [r \in ConflictRows |-> 0]
          /\ ml_predictions = IF stored THEN StoredPredictions
                              ELSE [r \in PredictionRows |-> 0]
          /\ engineering_metrics = IF stored THEN StoredSamples ELSE <<>>
    /\ seeds = 0
    /\ DEFAULT_HOURLY_COST = 75
    /\ pc = "idle"
    /\ args = [repositoryId |-> 0, timeframeDays |-> 0]
    /\ conflictData = <<>>
    /\ predictionData = <<>>
    /\ engineeringData = <<>>
    /\ metrics = <<>>
    /\ avgMetrics = <<>>
    /\ issued = <<>>
    /\ rejected = <<>>
    /\ outcome = NoOutcome
    /\ invocations = [i \in Invocations |-> IdleFrame]
    /\ monitoring = <<>>
    /\ recorded = <<>>
    /\ http = <<>>
    /\ worker = <<>>

\* what the routes leave alone
untouched == <<pool, tables, invocations, DEFAULT_HOURLY_COST, pc, args, locals,
               samples, issued, rejected, outcome, monitoring, recorded, worker>>

\* lines 5-11: router.get('/dashboard/:repositoryId')
GetDashboard ==
    /\ Len(http) < MaxRequests
    /\ \E repositoryId \in RepositoryIds :
          http' = Append(http,
              [route |-> "GET /dashboard/:repositoryId",
               repositoryId |-> repositoryId, timeframeDays |-> <<>>,
               response |-> [metrics |-> EmptyObject, roi |-> EmptyObject,
                             bottlenecks |-> <<>>]])
    /\ UNCHANGED untouched

\* lines 13-15: router.post('/calculate-roi')
PostCalculateRoi ==
    /\ Len(http) < MaxRequests
    /\ \E body \in RoiBodies :
          http' = Append(http,
              [route |-> "POST /calculate-roi",
               repositoryId |-> body.repositoryId,
               timeframeDays |-> body.timeframeDays,
               response |-> [roi |-> EmptyObject]])
    /\ UNCHANGED untouched

\* lines 17-19: router.get('/bottlenecks/:repositoryId')
GetBottlenecks ==
    /\ Len(http) < MaxRequests
    /\ \E repositoryId \in RepositoryIds :
          http' = Append(http,
              [route |-> "GET /bottlenecks/:repositoryId",
               repositoryId |-> repositoryId, timeframeDays |-> <<>>,
               response |-> [bottlenecks |-> <<>>]])
    /\ UNCHANGED untouched

NextRoutes ==
    \/ GetDashboard
    \/ PostCalculateRoi
    \/ GetBottlenecks

SpecRoutes == InitRoutes /\ [][NextRoutes]_vars

----------------------------------------------------------------------------
(* The background worker of the extension (background.js, lines 1-78):     *)
(* the listener starts a promise chain per GITHUB_DATA or GET_PREDICTION   *)
(* message; the chain suspends at getAuthToken, at fetch and at            *)
(* response.json, and ends in a call of sendResponse.                      *)

\* how many messages a run follows
MaxMessages == 2

MessageTypes == {"GITHUB_DATA", "GET_PREDICTION", "PING"}

MessageData == {"pull/17", "pull/42"}

\* what chrome.storage.local holds under authToken: a token or nothing
StoredTokens == {<<"token">>, <<>>}

\* the bodies the backend answers with
BackendPayloads == {"accepted", "risk: high"}

\* the messages of the errors fetch and response.json reject with
FetchErrors == {"Failed to fetch"}

JsonErrors == {"Unexpected end of JSON input"}

InitWorker ==
    /\ pool = "pg"
    /\ merge_conflicts = [r \in ConflictRows |-> 0]
    /\ ml_predictions = [r \in PredictionRows |-> 0]
    /\ engineering_metrics = <<>>
    /\ seeds = 0
    /\ DEFAULT_HOURLY_COST = 75
    /\ pc = "idle"
    /\ args = [repositoryId |-> 0, timeframeDays |-> 0]
    /\ conflictData = <<>>
    /\ predictionData = <<>>
    /\ engineeringData = <<>>
    /\ metrics = <<>>
    /\ avgMetrics = <<>>
    /\ issued = <<>>
    /\ rejected = <<>>
    /\ outcome = NoOutcome
    /\ invocations = [i \in Invocations |-> IdleFrame]
    /\ monitoring = <<>>
    /\ recorded = <<>>
    /\ http = <<>>
    /\ worker = <<>>

\* what the worker leaves alone
backend == <<pool, tables, invocations, DEFAULT_HOURLY_COST, pc, args, locals,
             samples, issued, rejected, outcome, monitoring, recorded, http>>

\* lines 7 and 14: the types the listener handles
Handled == {"GITHUB_DATA", "GET_PREDICTION"}

\* lines 9 and 16: the .then callbacks
onFulfilled(type, payload) ==
    IF type = "GITHUB_DATA" THEN [success |-> TRUE, data |-> payload]
    ELSE [success |-> TRUE, prediction |-> payload]

\* lines 10 and 17: the .catch callbacks
onRejected(message) == [success |-> FALSE, error |-> message]

\* lines 35-37 and 59-61: the error thrown for a status that is not OK
notOk(type) ==
    IF type = "GITHUB_DATA" THEN "Failed to send data to backend"
    ELSE "Failed to get prediction"

\* mutant: the chain has no .catch, a failure is answered by nothing
sendResponseOnSuccess(responses, response) ==
    IF response.success THEN Append(responses, response) ELSE responses

\* sendResponse(response), for the message whose responses these are
sendResponse(responses, response) == Append(responses, response)

\* lines 6-20: the listener; a message of another type is left unanswered
OnMessage ==
    /\ Len(worker) < MaxMessages
    /\ \E type \in MessageTypes, data \in MessageData :
          worker' = Append(worker,
              [type |-> type, data |-> data,
               pc |-> IF type \in Handled THEN "getAuthToken" ELSE "done",
               token |-> <<>>, fetched |-> "none", payload |-> <<>>,
               responses |-> <<>>])
    /\ UNCHANGED backend

\* lines 25 and 49 (71-77): the token is read, fetch is called
TokenResolved(i) ==
    /\ worker[i].pc = "getAuthToken"
    /\ \E token \in StoredTokens :
          worker' = [worker EXCEPT ![i].token = token, ![i].pc = "fetch"]
    /\ UNCHANGED backend

\* lines 26-39 and 50-63: fetch resolves; a status that is not OK throws
FetchResolved(i) ==
    /\ worker[i].pc = "fetch"
    /\ \E ok \in BOOLEAN :
          worker' =
              IF ok THEN [worker EXCEPT ![i].pc = "json"]
              ELSE [worker EXCEPT
                      ![i].pc = "done",
                      ![i].fetched = "not ok",
                      ![i].responses =
                          sendResponse(@, onRejected(notOk(worker[i].type)))]
    /\ UNCHANGED backend

\* lines 40-43 and 64-67: fetch rejects, the catch block rethrows
FetchRejected(i) ==
    /\ worker[i].pc = "fetch"
    /\ \E message \in FetchErrors :
          worker' = [worker EXCEPT
              ![i].pc = "done",
              ![i].fetched = "rejected",
              ![i].responses = sendResponse(@, onRejected(message))]
    /\ UNCHANGED backend

\* lines 39 and 63: the body is parsed and returned
JsonResolved(i) ==
    /\ worker[i].pc = "json"
    /\ \E payload \in BackendPayloads :
          worker' = [worker EXCEPT
              ![i].pc = "done",
              ![i].fetched = "ok",
              ![i].payload = <<payload>>,
              ![i].responses = sendResponse(@, onFulfilled(worker[i].type, payload))]
    /\ UNCHANGED backend

\* lines 39 and 63: the body does not parse
JsonRejected(i) ==
    /\ worker[i].pc = "json"
    /\ \E message \in JsonErrors :
          worker' = [worker EXCEPT
              ![i].pc = "done",
              ![i].fetched = "rejected",
              ![i].responses = sendResponse(@, onRejected(message))]
    /\ UNCHANGED backend

NextWorker ==
    \/ OnMessage
    \/ \E i \in DOMAIN worker : TokenResolved(i)
    \/ \E i \in DOMAIN worker : FetchResolved(i)
    \/ \E i \in DOMAIN worker : FetchRejected(i)
    \/ \E i \in DOMAIN worker : JsonResolved(i)
    \/ \E i \in DOMAIN worker : JsonRejected(i)

SpecWorker == InitWorker /\ [][NextWorker]_vars

----------------------------------------------------------------------------
(* Properties.                                                             *)

Returned(op) == outcome.op = op /\ outcome.status = "returned"

\* the ROIMetrics the last calculateROI returned
report == outcome.value[1]

NumericFields ==
    {"totalConflictsAvoided", "avgConflictResolutionTime", "timesSaved", "costSavings",
     "developerHourlyCost", "preventedBuildFailures", "cicdTimeSaved", "totalROI",
     "projectedAnnualSavings"}

\* a finite number >= 0
FiniteNonNegative(x) == x.t = "number" /\ x.k = "fin" /\ x.n >= 0

\* the finite number x (held in lowest terms) equals the fraction n/d, d > 0
EqualsFraction(x, n, d) ==
    LET g == Gcd(Abs(n), d)
    IN  x.t = "number" /\ x.k = "fin" /\ x.n = n \div g /\ x.d = d \div g

\* C1: when a fetch from the store fails during calculateROI or
\* identifyBottlenecks, the operation fails with that same error and
\* returns neither a report nor findings.
C1_FetchFailurePropagates ==
    rejected # <<>> =>
        /\ outcome.status = "threw"
        /\ outcome.error = rejected
        /\ outcome.value = <<>>

\* the third fetch of calculateROI failed, after two summaries were fetched
C1_Witness ==
    /\ outcome.op = "calculateROI"
    /\ rejected # <<>>
    /\ Len(issued) = 3
    /\ conflictData # <<>>
    /\ predictionData # <<>>
    /\ outcome.status = "threw"

\* C2 (as claimed): calculateROI called with timeframeDays <= 0 fails with
\* InvalidInput before any fetch is issued.
C2_InvalidInputBeforeFetch ==
    (outcome.op = "calculateROI" /\ args.timeframeDays <= 0) =>
        /\ issued = <<>>
        /\ outcome.status = "threw"
        /\ outcome.error = <<"InvalidInput">>

\* the summaries the invocation fetched are well-formed
WellFormedInput ==
    /\ args.timeframeDays > 0
    /\ FiniteNonNegative(predictionData[1].totalPredictions)
    /\ FiniteNonNegative(predictionData[1].accuracyRate)
    /\ predictionData[1].accuracyRate.n <= predictionData[1].accuracyRate.d
    /\ FiniteNonNegative(conflictData[1].avgResolutionMinutes)
    /\ engineeringData[1].avg_cycle_time.t = "string" =>
            engineeringData[1].avg_cycle_time.n >= 0

\* C3: for well-formed input every numeric field of the report that
\* calculateROI returns is finite and >= 0.
C3_ReportFiniteNonNegative ==
    (Returned("calculateROI") /\ WellFormedInput) =>
        \A f \in NumericFields : FiniteNonNegative(report[f])

\* a report with every kind of saving in it
C3_Witness ==
    /\ Returned("calculateROI")
    /\ WellFormedInput
    /\ report.costSavings.n > 0
    /\ report.cicdTimeSaved.n > 0
    /\ report.projectedAnnualSavings.n > 0

\* no row of the three tables matches the invocation's repository and window
NoMatchingRows ==
    /\ \A r \in ConflictRows :
          InWindow(r, args.repositoryId, args.timeframeDays) => merge_conflicts[r] = 0
    /\ \A r \in PredictionRows :
          InWindow(r, args.repositoryId, args.timeframeDays) => ml_predictions[r] = 0
    /\ \A i \in DOMAIN engineering_metrics :
          engineering_metrics[i].row.repository_id = args.repositoryId =>
              RunInWindow(i, args.timeframeDays) = 0

\* C4: with all three fetches successful and no matching row in the window,
\* calculateROI returns conflictsAvoided 0, avgConflictResolutionMinutes 45
\* and 0 for timeSavedHours, costSavings, preventedBuildFailures,
\* cicdTimeSavedHours and totalSavings.
C4_EmptyWindowDefaults ==
    (pool = "pg" /\ Returned("calculateROI") /\ NoMatchingRows) =>
        /\ report.totalConflictsAvoided = JsInt(0)
        /\ report.avgConflictResolutionTime = JsInt(45)
        /\ report.timesSaved = JsInt(0)
        /\ report.costSavings = JsInt(0)
        /\ report.preventedBuildFailures = JsInt(0)
        /\ report.cicdTimeSaved = JsInt(0)
        /\ report.totalROI = JsInt(0)

\* the tables hold rows, none of them in the 30-day window of repository 1
C4_Witness ==
    /\ pool = "pg"
    /\ Returned("calculateROI")
    /\ NoMatchingRows
    /\ args = [repositoryId |-> 1, timeframeDays |-> 30]
    /\ engineering_metrics # <<>>
    /\ \E r \in ConflictRows : merge_conflicts[r] > 0

\* the matching rows of merge_conflicts with a resolution time
TimedConflicts ==
    {r \in ConflictRows : /\ InWindow(r, args.repositoryId, args.timeframeDays)
                          /\ r.resolution_time # <<>>
                          /\ merge_conflicts[r] > 0}

\* C5 (as claimed): the default avgResolutionMinutes = 45 is applied only
\* when no row matches; when rows match, the average derived from them is
\* the one used in the computation, a derived 0 included.
C5_DefaultsOnlyWithoutRows ==
    (pool = "pg" /\ Returned("calculateROI") /\ TimedConflicts # {}) =>
        LET total == SumOver([r \in TimedConflicts |->
                                merge_conflicts[r] * r.resolution_time[1]], TimedConflicts)
            count == SumOver(merge_conflicts, TimedConflicts)
        IN  /\ EqualsFraction(report.avgConflictResolutionTime, total, count)
            /\ EqualsFraction(report.timesSaved,
                              report.totalConflictsAvoided.n * total, count * 60)

\* C6: conflictsAvoided = floor(totalPredictions x accuracyRate); 100
\* predictions at accuracy 0.8 give 80.
C6_ConflictsAvoidedIsFloor ==
    Returned("calculateROI") =>
        LET total == predictionData[1].totalPredictions
            rate == predictionData[1].accuracyRate
        IN  /\ (IsFinite(total) /\ IsFinite(rate)) =>
                /\ report.totalConflictsAvoided.k = "fin"
                /\ report.totalConflictsAvoided.d = 1
                /\ LET k == report.totalConflictsAvoided.n
                       den == total.d * rate.d
                   IN  k * den <= total.n * rate.n /\ total.n * rate.n < (k + 1) * den
            /\ (total = JsInt(100) /\ rate = Num(4, 5)) =>
                    report.totalConflictsAvoided = JsInt(80)

\* a product that is no integer: 3 predictions at accuracy 0.5 give 1
C6_Witness ==
    /\ Returned("calculateROI")
    /\ predictionData[1].totalPredictions = JsInt(3)
    /\ predictionData[1].accuracyRate = Num(1, 2)
    /\ report.totalConflictsAvoided = JsInt(1)

\* C7 (as claimed): timeSavedHours = conflictsAvoided x avgResolutionMinutes
\* / 60 with the avgResolutionMinutes of the fetched ConflictSummary,
\* costSavings = timeSavedHours x 75, and hourlyCost is reported as 75.
C7_TimeAndCostSavings ==
    (Returned("calculateROI") /\ IsFinite(conflictData[1].avgResolutionMinutes)
        /\ IsFinite(report.totalConflictsAvoided)) =>
        LET minutes == conflictData[1].avgResolutionMinutes
            avoided == report.totalConflictsAvoided
        IN  /\ EqualsFraction(report.timesSaved, avoided.n * minutes.n,
                              avoided.d * minutes.d * 60)
            /\ EqualsFraction(report.costSavings, report.timesSaved.n * 75,
                              report.timesSaved.d)
            /\ report.developerHourlyCost = JsInt(75)

\* the average cycle time the store supplied, if it supplied one
CycleTimeSupplied ==
    /\ engineeringData[1].avg_cycle_time.t = "string"
    /\ engineeringData[1].avg_cycle_time.n >= 0

\* C8: for an avgCycleTimeHours >= 0 supplied by the store,
\* cicdTimeSavedHours = max(0, 24 - avgCycleTimeHours) x 4: 0 from 24 on,
\* 48 for 12 and 96 for 0.
C8_CicdTimeSaved ==
    (Returned("calculateROI") /\ CycleTimeSupplied) =>
        LET avg == engineeringData[1].avg_cycle_time
        IN  /\ avg.n >= 24 * avg.d => report.cicdTimeSaved = JsInt(0)
            /\ avg.n < 24 * avg.d =>
                    EqualsFraction(report.cicdTimeSaved, (24 * avg.d - avg.n) * 4, avg.d)
            /\ (avg.n = 12 /\ avg.d = 1) => report.cicdTimeSaved = JsInt(48)
            /\ avg.n = 0 => report.cicdTimeSaved = JsInt(96)

\* the store's samples average a cycle time of 0 hours
C8_Witness ==
    /\ pool = "pg"
    /\ Returned("calculateROI")
    /\ CycleTimeSupplied
    /\ engineeringData[1].avg_cycle_time.n = 0
    /\ report.cicdTimeSaved = JsInt(96)

\* C9: totalSavings = costSavings + cicdTimeSavedHours x 37.5 and
\* projectedAnnualSavings = totalSavings / timeframeDays x 365 (for
\* timeframeDays = 0 the quotient of the division by zero: Infinity for a
\* positive total, NaN for a total of 0).
C9_TotalAndProjection ==
    (Returned("calculateROI") /\ IsFinite(report.costSavings)
        /\ IsFinite(report.cicdTimeSaved)) =>
        LET cost == report.costSavings
            cicd == report.cicdTimeSaved
            total == report.totalROI
            days == args.timeframeDays
        IN  /\ EqualsFraction(total, 2 * cost.n * cicd.d + 75 * cicd.n * cost.d,
                              2 * cost.d * cicd.d)
            /\ days > 0 =>
                    EqualsFraction(report.projectedAnnualSavings,
                                   total.n * 365, total.d * days)
            /\ days < 0 =>
                    EqualsFraction(report.projectedAnnualSavings,
                                   -(total.n * 365), total.d * (-days))
            /\ (days = 0 /\ total.n > 0) => report.projectedAnnualSavings = Infinity(1)
            /\ (days = 0 /\ total.n = 0) => report.projectedAnnualSavings = NaN

\* a report with conflict savings and CI/CD savings over 30 days
C9_Witness ==
    /\ Returned("calculateROI")
    /\ args.timeframeDays = 30
    /\ report.costSavings.n > 0
    /\ report.cicdTimeSaved.n > 0
    /\ report.totalROI.n > 0

\* C10: with PredictionSummary.totalPredictions = 0 the report has
\* conflictsAvoided = 0 and timeSavedHours = 0, whatever accuracyRate and
\* avgResolutionMinutes are.
C10_NoPredictionsNoSavings ==
    (Returned("calculateROI") /\ predictionData[1].totalPredictions = JsInt(0)) =>
        /\ report.totalConflictsAvoided = JsInt(0)
        /\ report.timesSaved = JsInt(0)

\* no prediction in the window, an accuracy that is not the default, and
\* conflicts with a resolution time
C10_Witness ==
    /\ Returned("calculateROI")
    /\ predictionData[1].totalPredictions = JsInt(0)
    /\ predictionData[1].accuracyRate = Num(1, 2)
    /\ conflictData[1].totalConflicts.n > 0
    /\ report.timesSaved = JsInt(0)

----------------------------------------------------------------------------
(* The findings of identifyBottlenecks.                                    *)

\* the findings the last identifyBottlenecks returned
findings == outcome.value[1]

FindingsOfType(type) == {i \in DOMAIN findings : findings[i].type = type}

\* the sum of a column over the fetched rows, a missing value counting as 0
RECURSIVE SampleTotal(_, _)
SampleTotal(runs, column) ==
    IF runs = <<>> THEN 0
    ELSE Head(runs).n * (IF Head(runs).row[column] = <<>> THEN 0
                         ELSE Head(runs).row[column][1])
         + SampleTotal(Tail(runs), column)

\* identifyBottlenecks returned for a window of at least one sample
NonEmptyWindow ==
    Returned("identifyBottlenecks") /\ metrics # <<>> /\ RowCount(metrics[1]) > 0

\* C12: when the source returns zero engineering samples, identifyBottlenecks
\* returns the empty sequence: it does not fail and it computes no average.
C12_EmptyWindowNoFindings ==
    (outcome.op = "identifyBottlenecks" /\ metrics # <<>> /\ RowCount(metrics[1]) = 0) =>
        /\ outcome.status = "returned"
        /\ outcome.value = << <<>> >>
        /\ avgMetrics = <<>>

\* the store holds samples, none of them of the repository asked for
C12_Witness ==
    /\ Returned("identifyBottlenecks")
    /\ pool = "pg"
    /\ engineering_metrics # <<>>
    /\ metrics = << <<>> >>
    /\ findings = <<>>

\* C13: over a non-empty window there is a long_pr_review finding exactly
\* when the mean code review time is above 240 minutes (strictly), and its
\* impact is high exactly when the mean is above 480 minutes, medium
\* otherwise: a mean of 240 gives no finding, a mean of 480 a medium one.
C13_LongPrReviewThresholds ==
    NonEmptyWindow =>
        LET total == SampleTotal(metrics[1], "code_review_time")
            count == RowCount(metrics[1])
        IN  /\ FindingsOfType("long_pr_review") # {} <=> total > 240 * count
            /\ \A i \in FindingsOfType("long_pr_review") :
                  findings[i].impact = IF total > 480 * count THEN "high" ELSE "medium"

\* a window whose mean code review time is exactly 480 minutes
C13_Witness ==
    /\ NonEmptyWindow
    /\ SampleTotal(metrics[1], "code_review_time") = 480 * RowCount(metrics[1])
    /\ \E i \in DOMAIN findings :
          findings[i].type = "long_pr_review" /\ findings[i].impact = "medium"

\* C14: over a non-empty window there is a slow_ci finding exactly when the
\* mean cycle time is above 48 hours (strictly), and every slow_ci finding
\* has impact high.
C14_SlowCiThreshold ==
    NonEmptyWindow =>
        LET total == SampleTotal(metrics[1], "cycle_time")
            count == RowCount(metrics[1])
        IN  /\ FindingsOfType("slow_ci") # {} <=> total > 48 * count
            /\ \A i \in FindingsOfType("slow_ci") : findings[i].impact = "high"

\* a window of the store whose mean cycle time is above 48 hours
C14_Witness ==
    /\ NonEmptyWindow
    /\ pool = "pg"
    /\ SampleTotal(metrics[1], "cycle_time") > 48 * RowCount(metrics[1])
    /\ \E i \in DOMAIN findings :
          findings[i].type = "slow_ci" /\ findings[i].impact = "high"

\* the averages the rules were applied to
averages == avgMetrics[1]

\* the rules were applied to averages and the findings returned
RulesApplied == Returned("identifyBottlenecks") /\ avgMetrics # <<>>

\* the finite number x is above the fraction n/d, d > 0
AboveFraction(x, n, d) == x.n * d > n * x.d

Rank(type) ==
    CASE type = "long_pr_review" -> 1
      [] type = "merge_conflicts" -> 2
      [] type = "slow_ci" -> 3

C18_LongPrReviewCost ==
    NonEmptyWindow =>
        LET total == SampleTotal(metrics[1], "code_review_time")
            cycle == SampleTotal(metrics[1], "cycle_time")
            count == RowCount(metrics[1])
        IN  /\ \A i \in FindingsOfType("long_pr_review") :
                  EqualsFraction(findings[i].estimatedCost,
                                 (total - 2 * 60 * count) * 75 * 20, 60 * count)
            /\ (total = 300 * count /\ cycle = 10 * count) =>
                  findings = <<[type |-> "long_pr_review", impact |-> "medium",
                                estimatedCost |-> JsInt(4500)]>>

\* the window of 30 samples averaging 300 minutes and 10 hours
C18_Witness ==
    /\ NonEmptyWindow
    /\ RowCount(metrics[1]) = 30
    /\ SampleTotal(metrics[1], "code_review_time") = 300 * 30
    /\ SampleTotal(metrics[1], "cycle_time") = 10 * 30
    /\ Len(findings) = 1

\* C19: every finding returned has an estimatedCost >= 0, whatever the
\* window of samples.
C19_CostsNonNegative ==
    Returned("identifyBottlenecks") =>
        \A i \in DOMAIN findings : FiniteNonNegative(findings[i].estimatedCost)

\* a window that gives both a long_pr_review and a slow_ci finding
C19_Witness ==
    /\ NonEmptyWindow
    /\ FindingsOfType("long_pr_review") # {}
    /\ FindingsOfType("slow_ci") # {}
    /\ \A i \in DOMAIN findings : findings[i].estimatedCost.n > 0

----------------------------------------------------------------------------
(* Concurrent invocations.                                                 *)

\* invocation i returned from op
ReturnedBy(i, op) ==
    invocations[i].outcome.op = op /\ invocations[i].outcome.status = "returned"

\* what an invocation of op with these arguments returns when it runs alone
\* against the store as it is
Alone(op, a) ==
    IF op = "calculateROI"
    THEN ROIMetrics(
             getConflictMetrics(<<ConflictQuery(a.repositoryId, a.timeframeDays)>>),
             getPredictionMetrics(<<PredictionQuery(a.repositoryId, a.timeframeDays)>>),
             getEngineeringMetrics(<<EngineeringQuery(a.repositoryId, a.timeframeDays)>>),
             a.timeframeDays)
    ELSE Bottlenecks(RecentSamples(engineering_metrics, a.repositoryId, 30))

\* C11: two invocations of calculateROI that received the same
\* ConflictSummary, PredictionSummary, EngineeringAverages and timeframeDays
\* returned identical reports, whatever invocations ran before or between.
C11_SameInputsSameReport ==
    \A i, j \in Invocations :
        (/\ ReturnedBy(i, "calculateROI")
         /\ ReturnedBy(j, "calculateROI")
         /\ invocations[i].conflictData = invocations[j].conflictData
         /\ invocations[i].predictionData = invocations[j].predictionData
         /\ invocations[i].engineeringData = invocations[j].engineeringData
         /\ invocations[i].args.timeframeDays = invocations[j].args.timeframeDays) =>
            invocations[i].outcome.value = invocations[j].outcome.value

\* two invocations returned a report with savings from the same summaries
C11_Witness ==
    \E i, j \in Invocations :
        /\ i # j
        /\ ReturnedBy(i, "calculateROI")
        /\ ReturnedBy(j, "calculateROI")
        /\ invocations[i].conflictData = invocations[j].conflictData
        /\ invocations[i].predictionData = invocations[j].predictionData
        /\ invocations[i].engineeringData = invocations[j].engineeringData
        /\ invocations[i].args.timeframeDays = invocations[j].args.timeframeDays
        /\ invocations[i].outcome.value[1].totalROI.n > 0

\* C20: whatever the interleaving of concurrent invocations of calculateROI
\* and identifyBottlenecks at their fetches, each one that returns, returns
\* what it would return alone against the same store data.
C20_ConcurrentAsAlone ==
    \A i \in Invocations :
        invocations[i].outcome.status = "returned" =>
            invocations[i].outcome.value =
                <<Alone(invocations[i].outcome.op, invocations[i].args)>>

\* an invocation returned a report while another, for another repository,
\* holds its first two summaries and awaits its third fetch
C20_Witness ==
    \E i, j \in Invocations :
        /\ ReturnedBy(i, "calculateROI")
        /\ invocations[j].pc = "getEngineeringMetrics"
        /\ invocations[i].args.repositoryId # invocations[j].args.repositoryId
        /\ invocations[i].conflictData # invocations[j].conflictData
        /\ invocations[i].outcome.value[1].totalROI.n > 0

----------------------------------------------------------------------------
(* Fetches: what the operations touch, and when they query.                *)

\* the order in which calculateROI fetches
FetchOrder == <<"merge_conflicts", "ml_predictions", "engineering_metrics">>

\* how many of the three summaries the invocation holds
Fetched ==
    (IF conflictData # <<>> THEN 1 ELSE 0) + (IF predictionData # <<>> THEN 1 ELSE 0)
        + (IF engineeringData # <<>> THEN 1 ELSE 0)

\* C21: no step of calculateROI or identifyBottlenecks, succeeding or
\* failing, changes the rows of the store or the calculator's fields pool
\* and DEFAULT_HOURLY_COST.
C21_OperationsOnlyRead ==
    [][(pc # "idle" \/ pc' # "idle") =>
          UNCHANGED <<pool, merge_conflicts, ml_predictions, engineering_metrics,
                      DEFAULT_HOURLY_COST>>]_vars

\* an operation failed against a store that holds rows
C21_Witness ==
    /\ pool = "pg"
    /\ seeds = MaxSeeds
    /\ engineering_metrics # <<>>
    /\ outcome.status = "threw"
    /\ DEFAULT_HOURLY_COST = 75

\* C22: within one invocation no fetch is issued twice: calculateROI issues
\* each of its three fetches at most once, identifyBottlenecks its one
\* fetch at most once, and after a fetch failed nothing is awaited any more.
C22_NoRetry ==
    /\ \A i, j \in DOMAIN issued : i < j => issued[i] # issued[j]
    /\ outcome.op = "calculateROI" => Len(issued) <= 3
    /\ outcome.op = "identifyBottlenecks" => Len(issued) <= 1
    /\ rejected # <<>> => pc = "idle"

\* the first fetch of calculateROI failed
C22_Witness ==
    /\ outcome.op = "calculateROI"
    /\ rejected # <<>>
    /\ issued = <<"merge_conflicts">>
    /\ pc = "idle"

\* C26: calculateROI issues its fetches in the order conflict summary,
\* prediction summary, engineering averages, each after the one before
\* completed; after a failure no later fetch is issued; and the report is
\* computed only when all three completed.
C26_SequentialFetches ==
    outcome.op = "calculateROI" =>
        /\ Len(issued) \in 1..3
        /\ issued = SubSeq(FetchOrder, 1, Len(issued))
        /\ predictionData # <<>> => conflictData # <<>>
        /\ engineeringData # <<>> => predictionData # <<>>
        /\ outcome.status \in {"pending", "threw"} => Len(issued) = Fetched + 1
        /\ outcome.status = "returned" => Len(issued) = 3
        /\ outcome.value # <<>> => Fetched = 3

\* the second fetch failed: the third was never issued
C26_Witness ==
    /\ outcome.op = "calculateROI"
    /\ outcome.status = "threw"
    /\ conflictData # <<>>
    /\ predictionData = <<>>
    /\ issued = <<"merge_conflicts", "ml_predictions">>

----------------------------------------------------------------------------
(* The window of identifyBottlenecks and its averages.                     *)

\* how many of the `left` most recent samples of the repository the runs hold
RECURSIVE WindowCount(_, _, _)
WindowCount(runs, repositoryId, left) ==
    IF runs = <<>> \/ left = 0 THEN 0
    ELSE IF Head(runs).row.repository_id # repositoryId
         THEN WindowCount(Tail(runs), repositoryId, left)
         ELSE LET take == IF Head(runs).n < left THEN Head(runs).n ELSE left
              IN  take + WindowCount(Tail(runs), repositoryId, left - take)

\* the sum of a column over the `left` most recent samples of the
\* repository, a missing value counting as 0
RECURSIVE WindowTotal(_, _, _, _)
WindowTotal(runs, repositoryId, column, left) ==
    IF runs = <<>> \/ left = 0 THEN 0
    ELSE IF Head(runs).row.repository_id # repositoryId
         THEN WindowTotal(Tail(runs), repositoryId, column, left)
         ELSE LET take == IF Head(runs).n < left THEN Head(runs).n ELSE left
                  value == IF Head(runs).row[column] = <<>> THEN 0
                           ELSE Head(runs).row[column][1]
              IN  take * value
                    + WindowTotal(Tail(runs), repositoryId, column, left - take)

SampleColumns == {"code_review_time", "cycle_time", "pr_merge_time"}

\* C27: the averages of identifyBottlenecks are, for code_review_time,
\* cycle_time and pr_merge_time, the sum over the fetched samples divided by
\* their number, a missing value adding 0 to the sum and 1 to the divisor;
\* the fetched samples are the 30 most recent of the repository at most, so
\* older ones do not count.
C27_MeansOverRecentSamples ==
    NonEmptyWindow =>
        LET count == RowCount(metrics[1])
        IN  /\ count <= 30
            /\ \A column \in SampleColumns :
                  EqualsFraction(averages[column],
                                 SampleTotal(metrics[1], column), count)
            /\ pool = "pg" =>
                  /\ count = WindowCount(engineering_metrics, args.repositoryId, 30)
                  /\ \A column \in SampleColumns :
                        SampleTotal(metrics[1], column)
                            = WindowTotal(engineering_metrics, args.repositoryId,
                                          column, 30)

\* the store holds more than 30 samples of the repository, the most recent
\* one without a pr_merge_time and unlike the older ones
C27_Witness ==
    /\ NonEmptyWindow
    /\ pool = "pg"
    /\ Len(engineering_metrics) = 2
    /\ \A i \in 1..2 : engineering_metrics[i].row.repository_id = args.repositoryId
    /\ engineering_metrics[1].n = 1
    /\ engineering_metrics[1].row.pr_merge_time = <<>>
    /\ engineering_metrics[2].n = 30
    /\ engineering_metrics[2].row.pr_merge_time # <<>>
    /\ RowCount(metrics[1]) = 30
    /\ averages.pr_merge_time.n > 0

----------------------------------------------------------------------------
(* The monitoring buffer.                                                  *)

\* C25: after any calls of recordRequest the metrics array holds at most
\* MAX_METRICS = 10000 entries, and they are the most recently recorded
\* entries in the order recorded: beyond the capacity the oldest are
\* dropped, the entry just recorded never is.
C25_BufferKeepsMostRecent ==
    /\ Len(monitoring) <= 10000
    /\ Len(monitoring) = Min(Len(recorded), 10000)
    /\ monitoring = SubSeq(recorded, Len(recorded) - Len(monitoring) + 1, Len(recorded))
    /\ recorded # <<>> => monitoring[Len(monitoring)] = recorded[Len(recorded)]

\* two entries beyond the capacity were recorded, the last one an error
C25_Witness ==
    /\ Len(recorded) = 10002
    /\ Len(monitoring) = 10000
    /\ monitoring[1].timestamp = 3
    /\ monitoring[10000].timestamp = 10002
    /\ monitoring[10000].statusCode = 500

----------------------------------------------------------------------------
(* The HTTP surface.                                                       *)

\* C23 (as claimed): the response to POST /api/analytics/calculate-roi is
\* the report calculateROI computes for the body's repositoryId and
\* timeframeDays, 30 when timeframeDays is absent.
C23_RoiRouteReturnsReport ==
    \A i \in DOMAIN http :
        http[i].route = "POST /calculate-roi" =>
            LET days == IF http[i].timeframeDays = <<>> THEN 30
                        ELSE http[i].timeframeDays[1]
                a == [repositoryId |-> http[i].repositoryId, timeframeDays |-> days]
            IN  /\ http[i].response.roi # EmptyObject
                /\ http[i].response.roi = Alone("calculateROI", a)

\* C24 (as claimed): the response to GET /api/analytics/bottlenecks/:id is
\* {bottlenecks: B} with B the findings identifyBottlenecks returns for the
\* repository, so non-empty when its samples trigger a rule.
C24_BottlenecksRouteReturnsFindings ==
    \A i \in DOMAIN http :
        http[i].route = "GET /bottlenecks/:repositoryId" =>
            http[i].response.bottlenecks =
                Alone("identifyBottlenecks",
                      [repositoryId |-> http[i].repositoryId, timeframeDays |-> 0])

----------------------------------------------------------------------------
(* The extension's background worker.                                      *)

\* C29: a GITHUB_DATA or GET_PREDICTION message is answered by exactly one
\* call of sendResponse once its backend call settled, and by none before:
\* success true with the backend's payload when the call succeeded,
\* success false with an error message when it failed or the status was
\* not OK; a message of another type is never answered.
C29_OneResponsePerMessage ==
    \A i \in DOMAIN worker :
        LET m == worker[i]
        IN  /\ m.type \notin Handled => m.responses = <<>>
            /\ m.pc # "done" => m.responses = <<>>
            /\ (m.type \in Handled /\ m.pc = "done") =>
                  /\ Len(m.responses) = 1
                  /\ m.fetched = "ok" =>
                        /\ m.responses[1].success = TRUE
                        /\ m.responses[1] \in
                              {[success |-> TRUE, data |-> m.payload[1]],
                               [success |-> TRUE, prediction |-> m.payload[1]]}
                  /\ m.fetched # "ok" =>
                        /\ m.responses[1].success = FALSE
                        /\ DOMAIN m.responses[1] = {"success", "error"}
                        /\ m.responses[1].error # ""

\* a prediction was refused with a status that is not OK and answered with
\* the failure, and a message of another type got no answer
C29_Witness ==
    /\ Len(worker) = 2
    /\ worker[1].type = "GET_PREDICTION"
    /\ worker[1].fetched = "not ok"
    /\ worker[1].responses = <<[success |-> FALSE, error |-> "Failed to get prediction"]>>
    /\ worker[2].type = "PING"
    /\ worker[2].responses = <<>>

====
